---- MODULE Spec2Model ----
(***************************************************************************)
(* Model of the traffic dashboard's feed client and per-lane derivation.   *)
(*   frontend/src/hooks/useSocket.ts : the reconnecting WebSocket hook     *)
(*   frontend/src/app/page.tsx       : Home, the per-lane view derivation  *)
(***************************************************************************)
EXTENDS FiniteSets, Integers, Sequences, TLC

(* ----------------------------- bounds ---------------------------------- *)
\* number of WebSocket objects ever constructed in one behaviour
MaxSockets == 4
\* number of times the effect of useSocket runs (mount plus url changes)
MaxEffects == 2
\* lane ids used as inputs of the derivation, 1..MaxLane
MaxLane == 2
\* longest lane list handed to the derivation
MaxLanes == 2

(* --------------------------- JS values --------------------------------- *)
\* JavaScript null (useState<SocketData | null>(null), lane_id: number | null)
JNull == [t |-> "null"]

\* a JavaScript number
JNum(n) == [t |-> "number", v |-> n]

\* x === n for a number n: never true of null
StrictEq(x, n) == x.t = "number" /\ x.v = n

(* --------------------------- raw frames -------------------------------- *)
RawGarbage == "{signals:"
RawNull == "null"
RawNoSignals == "{\"emergency\":{\"is_active\":false,\"lane_id\":null},\"detections\":{}}"
RawValidA == "{\"signals\":{\"lane1\":\"GREEN\"},\"emergency\":{\"is_active\":true,\"lane_id\":1},\"detections\":{}}"
RawValidB == "{\"signals\":{\"lane1\":\"RED\"},\"emergency\":{\"is_active\":false,\"lane_id\":null},\"detections\":{},\"v\":2}"

\* the frames a server may push (event.data)
RawFrames == {RawGarbage, RawNull, RawNoSignals, RawValidA, RawValidB}

\* the value of an empty JSON object {}
EmptyObj == [k \in {} |-> JNull]

\* JSON.parse(event.data): throws on text that is not JSON, and otherwise
\* returns whatever value the text denotes, with every key it carries
JSONparse(raw) ==
  CASE raw = RawGarbage -> [threw |-> TRUE, value |-> JNull]
    [] raw = RawNull -> [threw |-> FALSE, value |-> JNull]
    [] raw = RawNoSignals ->
         [threw |-> FALSE,
          value |-> [emergency |-> [is_active |-> FALSE, lane_id |-> JNull],
                     detections |-> EmptyObj]]
    [] raw = RawValidA ->
         [threw |-> FALSE,
          value |-> [signals |-> ("lane1" :> "GREEN"),
                     emergency |-> [is_active |-> TRUE, lane_id |-> JNum(1)],
                     detections |-> EmptyObj]]
    [] raw = RawValidB ->
         [threw |-> FALSE,
          value |-> [signals |-> ("lane1" :> "RED"),
                     emergency |-> [is_active |-> FALSE, lane_id |-> JNull],
                     detections |-> EmptyObj,
                     v |-> JNum(2)]]

(* ------------------------------ state ---------------------------------- *)
VARIABLES
  data,         \* useState<SocketData | null>
  isConnected,  \* useState(false)
  socketRef,    \* socketRef.current: 0 is null, else an index of sockets
  sockets,      \* every WebSocket constructed so far, in creation order
  timers,       \* pending setTimeout(connect, 3000), per effect instance
  effectGen,    \* how many times the effect has run (0: not mounted yet)
  mounted,      \* the component is mounted
  dataFrom,     \* history: index of the socket whose frame setData last took
  lanes,        \* the lane list Home maps over
  views         \* what Home last rendered for the lanes

vars == <<data, isConnected, socketRef, sockets, timers, effectGen, mounted,
          dataFrom, lanes, views>>

hookVars == <<data, isConnected, socketRef, sockets, timers, effectGen,
              mounted, dataFrom>>

\* const lanes = [1, 2, 3, 4]
DefaultLanes == <<1, 2, 3, 4>>

\* Home has not rendered yet
NoViews == [rendered |-> FALSE]

\* the hook as first rendered, before its effect has run
Init ==
  /\ data = JNull
  /\ isConnected = FALSE
  /\ socketRef = 0
  /\ sockets = << >>
  /\ timers = [g \in 1..MaxEffects |-> 0]
  /\ effectGen = 0
  /\ mounted = FALSE
  /\ dataFrom = 0
  /\ lanes = DefaultLanes
  /\ views = NoViews

(* ----------------------------- the hook -------------------------------- *)
\* connect of effect instance g, applied to the socket list ss:
\* new WebSocket(url); socketRef.current = socket
connect(ss, g) ==
  /\ sockets' = Append(ss, [readyState |-> "CONNECTING", gen |-> g])
  /\ socketRef' = Len(ss) + 1

\* the effect's cleanup: if (socketRef.current) socketRef.current.close()
\* close() starts the closing handshake of a connecting or open socket and
\* does nothing to one that is closing or closed
cleanup(ss) ==
  IF socketRef /= 0 /\ ss[socketRef].readyState \in {"CONNECTING", "OPEN"}
    THEN [ss EXCEPT ![socketRef].readyState = "CLOSING"]
    ELSE ss

\* first run of the effect: connect()
Mount ==
  /\ effectGen = 0
  /\ effectGen' = 1
  /\ mounted' = TRUE
  /\ connect(sockets, 1)
  /\ UNCHANGED <<data, isConnected, timers, dataFrom, lanes, views>>

\* the url dependency changed: cleanup of the old effect, then the new effect
UrlChange ==
  /\ mounted
  /\ effectGen < MaxEffects
  /\ Len(sockets) < MaxSockets
  /\ effectGen' = effectGen + 1
  /\ connect(cleanup(sockets), effectGen + 1)
  /\ UNCHANGED <<data, isConnected, timers, mounted, dataFrom, lanes, views>>

\* the component unmounts: cleanup only
Unmount ==
  /\ mounted
  /\ mounted' = FALSE
  /\ sockets' = cleanup(sockets)
  /\ UNCHANGED <<data, isConnected, socketRef, timers, effectGen, dataFrom,
                 lanes, views>>

\* socket.onopen: setIsConnected(true)
onopen(s) ==
  /\ sockets[s].readyState = "CONNECTING"
  /\ sockets' = [sockets EXCEPT ![s].readyState = "OPEN"]
  /\ isConnected' = TRUE
  /\ UNCHANGED <<data, socketRef, timers, effectGen, mounted, dataFrom,
                 lanes, views>>

\* socket.onmessage: try { setData(JSON.parse(event.data)) } catch { log }
onmessage(s, raw) ==
  /\ sockets[s].readyState = "OPEN"
  /\ LET parsed == JSONparse(raw)
     IN IF parsed.threw
          THEN UNCHANGED <<data, dataFrom>>
          ELSE /\ data' = parsed.value
               /\ dataFrom' = s
  /\ UNCHANGED <<isConnected, socketRef, sockets, timers, effectGen, mounted,
                 lanes, views>>

\* onclose that also drops the cached snapshot
onclose_clearsData(s) ==
  /\ sockets[s].readyState /= "CLOSED"
  /\ sockets' = [sockets EXCEPT ![s].readyState = "CLOSED"]
  /\ isConnected' = FALSE
  /\ data' = JNull
  /\ timers' = [timers EXCEPT ![sockets[s].gen] = @ + 1]
  /\ UNCHANGED <<socketRef, effectGen, mounted, dataFrom, lanes, views>>

\* onclose that forgets to schedule the reconnect
onclose_noRetry(s) ==
  /\ sockets[s].readyState /= "CLOSED"
  /\ sockets' = [sockets EXCEPT ![s].readyState = "CLOSED"]
  /\ isConnected' = FALSE
  /\ UNCHANGED <<data, timers, socketRef, effectGen, mounted, dataFrom, lanes,
                 views>>

\* socket.onclose: setIsConnected(false); setTimeout(connect, 3000)
onclose(s) ==
  /\ sockets[s].readyState /= "CLOSED"
  /\ sockets' = [sockets EXCEPT ![s].readyState = "CLOSED"]
  /\ isConnected' = FALSE
  /\ timers' = [timers EXCEPT ![sockets[s].gen] = @ + 1]
  /\ UNCHANGED <<data, socketRef, effectGen, mounted, dataFrom, lanes, views>>

\* socket.onerror: console.error only
onerror(s) ==
  /\ sockets[s].readyState /= "CLOSED"
  /\ UNCHANGED vars

\* a pending setTimeout(connect, 3000) of effect instance g fires
TimerFire(g) ==
  /\ timers[g] > 0
  /\ Len(sockets) < MaxSockets
  /\ timers' = [timers EXCEPT ![g] = @ - 1]
  /\ connect(sockets, g)
  /\ UNCHANGED <<data, isConnected, effectGen, mounted, dataFrom, lanes, views>>

Next ==
  \/ Mount
  \/ UrlChange
  \/ Unmount
  \/ \E s \in DOMAIN sockets : onopen(s)
  \/ \E s \in DOMAIN sockets : \E raw \in RawFrames : onmessage(s, raw)
  \/ \E s \in DOMAIN sockets : onclose(s)
  \/ \E s \in DOMAIN sockets : onerror(s)
  \/ \E g \in 1..MaxEffects : TimerFire(g)

Spec == Init /\ [][Next]_vars

\* a timer set by setTimeout fires once its delay has elapsed
FairSpec == Spec /\ \A g \in 1..MaxEffects : WF_vars(TimerFire(g))

(* ------------------------- Home: the lane cards ------------------------ *)
\* const laneKey = `lane${laneId}`
laneKey(laneId) == "lane" \o ToString(laneId)

\* a derivation whose default is GREEN
signalStateOf_defaultGreen(d, laneId) ==
  IF d = JNull THEN "GREEN"
  ELSE IF laneKey(laneId) \in DOMAIN d.signals
         THEN d.signals[laneKey(laneId)]
         ELSE "GREEN"

\* data?.signals[laneKey] || 'RED'
signalStateOf(d, laneId) ==
  IF d = JNull THEN "RED"
  ELSE IF laneKey(laneId) \in DOMAIN d.signals
         THEN d.signals[laneKey(laneId)]
         ELSE "RED"

\* a derivation that forgets to compare the lane id
isEmergencyOf_anyLane(d, laneId) ==
  IF d = JNull THEN FALSE
  ELSE d.emergency.is_active

\* !!(data?.emergency.is_active && data.emergency.lane_id === laneId)
isEmergencyOf(d, laneId) ==
  IF d = JNull THEN FALSE
  ELSE d.emergency.is_active /\ StrictEq(d.emergency.lane_id, laneId)

\* data?.detections?.[laneKey] || []
detectionsOf(d, laneId) ==
  IF d = JNull THEN << >>
  ELSE IF "detections" \notin DOMAIN d THEN << >>
  ELSE IF laneKey(laneId) \in DOMAIN d.detections
         THEN d.detections[laneKey(laneId)]
         ELSE << >>

\* reading a property of undefined throws a TypeError: data.signals[...] and
\* data.emergency.is_active are not optional-chained past data
throwsOn(d) ==
  /\ d /= JNull
  /\ ("signals" \notin DOMAIN d \/ "emergency" \notin DOMAIN d)

\* lanes.map((laneId) => <VideoCard .../>): one card per element, in order
derive(d, L) ==
  IF L /= << >> /\ throwsOn(d)
    THEN [threw |-> TRUE, cards |-> << >>]
    ELSE [threw |-> FALSE,
          cards |-> [i \in 1..Len(L) |->
                       [laneId |-> L[i],
                        signalState |-> signalStateOf(d, L[i]),
                        isEmergency |-> isEmergencyOf(d, L[i]),
                        detections |-> detectionsOf(d, L[i])]]]

\* Home renders the cards from the hook's data
Render ==
  /\ views' = [rendered |-> TRUE, out |-> derive(data, lanes)]
  /\ UNCHANGED <<hookVars, lanes>>

(* ------------------- inputs of the derivation -------------------------- *)
LaneIds == 1..MaxLane

LaneKeys == {laneKey(i) : i \in LaneIds}

SignalStates == {"RED", "YELLOW", "GREEN"}

\* partial maps from a set of keys to a set of values
PartialMaps(K, V) == UNION {[D -> V] : D \in SUBSET K}

\* Array<{ class: string; confidence: number }>, confidence in hundredths
DetectionLists ==
  { << >>,
    << [class |-> "ambulance", confidence |-> 92],
       [class |-> "car", confidence |-> 40] >> }

Emergencies ==
  [is_active : BOOLEAN, lane_id : {JNull} \cup {JNum(i) : i \in LaneIds}]

\* objects that have all three required top-level fields
FullObjects ==
  [signals : PartialMaps(LaneKeys, SignalStates),
   emergency : Emergencies,
   detections : PartialMaps(LaneKeys, DetectionLists)]

\* objects a frame can parse to that lack one required field
PartialObjects ==
  [emergency : Emergencies, detections : PartialMaps(LaneKeys, DetectionLists)]
  \cup [signals : PartialMaps(LaneKeys, SignalStates),
        detections : PartialMaps(LaneKeys, DetectionLists)]
  \cup [signals : PartialMaps(LaneKeys, SignalStates), emergency : Emergencies]

\* lane lists, repeated ids included
LaneLists == UNION {[1..n -> LaneIds] : n \in 0..MaxLanes}

\* Home rendered with any value the hook can hand it and any lane list
DeriveInit ==
  /\ data \in {JNull} \cup FullObjects \cup PartialObjects
  /\ lanes \in LaneLists
  /\ views = NoViews
  /\ isConnected = FALSE
  /\ socketRef = 0
  /\ sockets = << >>
  /\ timers = [g \in 1..MaxEffects |-> 0]
  /\ effectGen = 0
  /\ mounted = FALSE
  /\ dataFrom = 0

DeriveNext == Render

DeriveSpec == DeriveInit /\ [][DeriveNext]_vars

(* ============================== claims ================================= *)

\* C1: after the effect's cleanup has run (unmount or url change), no new
\* connection is ever opened by that effect instance.
C1_NoConnectAfterShutdown ==
  [][Len(sockets') > Len(sockets)
       => LET g == sockets'[Len(sockets')].gen
          IN ~(g < effectGen \/ (g = effectGen /\ effectGen > 0 /\ ~mounted))]_vars

\* C2: an onClose delivered by a superseded connection (not the current one)
\* changes neither the connection status, the snapshot nor the timers.
C2_StaleCloseNoChange ==
  [][\A s \in DOMAIN sockets :
       (/\ sockets[s].readyState /= "CLOSED"
        /\ sockets'[s].readyState = "CLOSED"
        /\ s /= socketRef)
       => UNCHANGED <<isConnected, data, timers>>]_vars

\* C3: a frame that fails decoding (not well-formed, or lacking one of
\* signals, emergency, detections) leaves the snapshot and the connection
\* as they were.
C3_BadFrameRetainsSnapshot ==
  [][\A s \in DOMAIN sockets : \A raw \in RawFrames :
       (/\ onmessage(s, raw)
        /\ LET p == JSONparse(raw)
           IN \/ p.threw
              \/ ~({"signals", "emergency", "detections"} \subseteq DOMAIN p.value))
       => (data' = data /\ isConnected' = isConnected /\ sockets' = sockets)]_vars

\* C4: once a valid snapshot is cached, the snapshot is never null again.
C4_SnapshotNeverReturnsToNull ==
  [][{"signals", "emergency", "detections"} \subseteq DOMAIN data
       => data' /= JNull]_vars

\* C5: an onClose leaves the client not connected with a reconnect pending,
\* and the cached snapshot exactly as it was before the close.
C5_CloseKeepsSnapshot ==
  [][\A s \in DOMAIN sockets :
       (sockets[s].readyState /= "CLOSED" /\ sockets'[s].readyState = "CLOSED")
       => (/\ isConnected' = FALSE
           /\ timers'[sockets[s].gen] > 0
           /\ data' = data)]_vars

\* C5 witness: the current connection has closed while a snapshot was cached.
C5_Witness ==
  /\ socketRef /= 0
  /\ sockets[socketRef].readyState = "CLOSED"
  /\ timers[sockets[socketRef].gen] > 0
  /\ ~isConnected
  /\ "signals" \in DOMAIN data

\* C6: whenever the latest connection has closed, a new connection is
\* eventually created, however many attempts failed before; and the status
\* turns connected only by an onOpen, which while the client has not been
\* shut down is the onOpen of the newest connection.
C6_ReconnectsForever ==
  /\ \A n \in 1..(MaxSockets - 1) :
       (Len(sockets) = n /\ sockets[n].readyState = "CLOSED")
         ~> (Len(sockets) > n)
  /\ [][(~isConnected /\ isConnected')
          => \E s \in DOMAIN sockets :
               /\ sockets[s].readyState = "CONNECTING"
               /\ sockets'[s].readyState = "OPEN"
               /\ ((mounted /\ effectGen = 1)
                     => (s = Len(sockets) /\ s = socketRef))]_vars

\* C6 witness: two attempts closed, the third connection is open, no shutdown.
C6_Witness ==
  /\ mounted /\ effectGen = 1
  /\ Len(sockets) >= 3
  /\ sockets[1].readyState = "CLOSED"
  /\ sockets[2].readyState = "CLOSED"
  /\ sockets[3].readyState = "OPEN"
  /\ isConnected

\* C7: once a snapshot of connection N is cached, no snapshot of a connection
\* created before N, or of an earlier effect instance, replaces it.
C7_NoStaleSnapshot ==
  [][(/\ dataFrom /= 0
      /\ dataFrom' /= dataFrom
      /\ "signals" \in DOMAIN data
      /\ "signals" \in DOMAIN data')
       => (/\ dataFrom' > dataFrom
           /\ sockets[dataFrom'].gen >= sockets[dataFrom].gen)]_vars

\* C8: for a snapshot with all its fields and a list of distinct lane ids, the
\* cards are one per lane in the list's order, at most one card is flagged as
\* the emergency lane, and only the lane the active emergency names.
C8_DeriveShape ==
  (/\ views.rendered
   /\ data \in FullObjects
   /\ \A i, j \in DOMAIN lanes : lanes[i] = lanes[j] => i = j)
  => (/\ ~views.out.threw
      /\ Len(views.out.cards) = Len(lanes)
      /\ \A i \in DOMAIN lanes : views.out.cards[i].laneId = lanes[i]
      /\ Cardinality({i \in DOMAIN lanes : views.out.cards[i].isEmergency}) <= 1
      /\ \A i \in DOMAIN lanes :
           views.out.cards[i].isEmergency
             => (/\ data.emergency.is_active
                 /\ data.emergency.lane_id = JNum(lanes[i])))

\* C8 witness: two distinct lanes rendered, exactly one flagged.
C8_Witness ==
  /\ views.rendered
  /\ data \in FullObjects
  /\ Len(lanes) = 2
  /\ lanes[1] /= lanes[2]
  /\ ~views.out.threw
  /\ ~views.out.cards[1].isEmergency
  /\ views.out.cards[2].isEmergency

\* C9: each card shows the snapshot's signal for its lane key, RED when the
\* key is missing, and the snapshot's detections or none; with no snapshot
\* every card is RED, not an emergency, without detections.
C9_FailSafeDefault ==
  (views.rendered /\ (data = JNull \/ data \in FullObjects))
  => (/\ ~views.out.threw
      /\ Len(views.out.cards) = Len(lanes)
      /\ \A i \in DOMAIN lanes :
           LET card == views.out.cards[i]
               key == "lane" \o ToString(lanes[i])
           IN /\ card.signalState /= "RED"
                   => (/\ data /= JNull
                       /\ key \in DOMAIN data.signals
                       /\ data.signals[key] = card.signalState)
              /\ (data /= JNull /\ key \in DOMAIN data.signals)
                   => card.signalState = data.signals[key]
              /\ (data /= JNull /\ key \in DOMAIN data.detections)
                   => card.detections = data.detections[key]
              /\ (data = JNull \/ key \notin DOMAIN data.detections)
                   => card.detections = << >>
              /\ data = JNull => ~card.isEmergency)

\* C9 witness: a lane missing from the snapshot is RED next to a GREEN one.
C9_Witness ==
  /\ views.rendered
  /\ data \in FullObjects
  /\ lanes = <<1, 2>>
  /\ DOMAIN data.signals = {"lane2"}
  /\ data.signals["lane2"] = "GREEN"
  /\ ~views.out.threw
  /\ views.out.cards[1].signalState = "RED"
  /\ views.out.cards[2].signalState = "GREEN"

\* C10: at most one connection is connecting or open, at most one reconnect
\* timer is pending, and the live connection is the one socketRef holds.
C10_SingleConnection ==
  LET live == {s \in DOMAIN sockets :
                 sockets[s].readyState \in {"CONNECTING", "OPEN"}}
      pending == {g \in DOMAIN timers : timers[g] > 0}
  IN /\ Cardinality(live) <= 1
     /\ Cardinality(pending) <= 1
     /\ \A g \in pending : timers[g] <= 1
     /\ \A s \in live : s = socketRef

====
